---- MODULE Spec2Model ----
(***************************************************************************)
(* YASH (Yet Another SVG Helper): the Path command-string builder, the     *)
(* Text builder and the SVG container, modelled from Path.ts, Text.ts,     *)
(* TextFontProperties.ts and SVG.ts, and the Text class of the namespace   *)
(* file yash.ts.                                                           *)
(*                                                                         *)
(* JavaScript strings are TLA+ strings (\o is +=), a possibly absent       *)
(* value (an omitted parameter, null, undefined) is the empty tuple <<>>   *)
(* and a present one the 1-tuple <<v>>.  Every method of a builder is an   *)
(* operator from the receiver's fields (self) to its fields after the      *)
(* call; the actions apply the methods to the objects of the heap.         *)
(***************************************************************************)
EXTENDS Integers, Sequences, FiniteSets, TLC

VARIABLES
    path,      \* heap of Path objects: id -> fields
    ctor,      \* the arguments each Path was constructed with
    textCtor,  \* the arguments each Text was constructed with
    called,    \* object id -> the methods called on it so far; a render is
               \* recorded with the way it ended
    hist,      \* id -> the command calls made on that Path, in call order
    text,      \* heap of Text objects: id -> fields
    ytext,     \* heap of YASH.Text objects, the Text class of the namespace
               \* file yash.ts: id -> fields
    svg,       \* heap of SVG containers: id -> [selector, elements (an array id)]
    arrays,    \* heap of ISVGElement[] arrays: array id -> sequence of drawable ids
    dom,       \* the host document: its nodes, node -> [children]
    added,     \* container id -> the add calls made on it, in call order:
               \* the drawable and its fields at the time of the call
    last,      \* the most recent call: its op, target, arguments and outcome
    budget     \* the number of calls the run may still make: <<n>>, or <<>>
               \* when the run is not limited

pathVars == <<path, ctor, hist>>
svgVars == <<svg, arrays>>
vars ==
    <<path, ctor, textCtor, called, hist, text, ytext, svg, arrays, dom, added,
      last, budget>>

----------------------------------------------------------------------------
(* Bounds and input sets *)

\* command calls per Path
MaxCmds == 2
\* drawables per elements array
MaxElems == 2
\* children per node of the document
MaxChildren == 3
\* calls per run, in the specifications that limit the run
MaxCalls == 2

PathIds == {"p1"}
TextIds == {"t1"}
YTextIds == {"y1"}
SvgIds == {"s1"}

\* two containers, and the arrays they can be constructed with: one of its
\* own for each, or one array passed to both constructors
SvgPairIds == {"s1", "s2"}
ArrayIds == {"s1", "s2", "a"}

\* constructor seeds for pathString
Seeds == {"M 0,0 "}

\* color strings
Colors == {"red"}

\* stroke color strings
StrokeColors == {"blue"}

\* stroke widths: any number is accepted
Widths == {-2, 3}

\* Text bodies
Bodies == {"hello"}

\* font family lists
FontLists == {<<"Arial", "sans-serif">>, <<>>}

\* text anchors
Anchors == {"middle"}

\* (x, y) of a Text
Positions == {<<3, -4>>}

\* the nodes the host document starts with: two <svg> elements
Nodes == {1, 2}

\* a node the host page inserts later: <svg id="missing">
LateNodes == {3}

\* all nodes in document order
DocumentOrder == <<1, 2, 3>>

\* selectors a container is constructed with ("" is the constructor's default)
Selectors == {"svg", "#missing", ""}

\* (x, y)
PointArgs == {<<3, 4>>, <<-1, 12>>}
\* (x1, y1, endX, endY)
QuadArgs == {<<-5, 0, 10, -2>>}
\* (x1, y1, x2, y2, endX, endY)
CurveArgs == {<<1, 2, 3, 4, 5, 6>>}

----------------------------------------------------------------------------
(* JavaScript values *)

undefined == <<>>
null == <<>>

ABSOLUTE == FALSE
RELATIVE == TRUE

\* an optional mode argument: omitted, or one of the two modes
Flags == {undefined, <<ABSOLUTE>>, <<RELATIVE>>}

DigitChar(d) == <<"0", "1", "2", "3", "4", "5", "6", "7", "8", "9">>[d + 1]

RECURSIVE NatToString(_)
NatToString(n) ==
    IF n < 10 THEN DigitChar(n)
    ELSE NatToString(n \div 10) \o DigitChar(n % 10)

\* Number.prototype.toString / `${n}` on an integer
NumToString(n) == IF n < 0 THEN "-" \o NatToString(-n) ELSE NatToString(n)

\* a value of the union type (string | number), with its run-time type
JSString(s) == [type |-> "string", value |-> s]
JSNumber(n) == [type |-> "number", value |-> n]

\* typeof v
typeof(v) == v.type

\* the string a (string | number) value is converted to when the DOM
\* stores it as an attribute value
DOMString(v) == IF typeof(v) = "number" THEN NumToString(v.value) ELSE v.value

\* font sizes and font weights, as numbers and as strings
Sizes == {JSNumber(12), JSString("1em")}
Weights == {JSNumber(700), JSString("bold")}

\* the run may make another call
NoLimit == <<>>
CallsLeft == IF budget = NoLimit THEN TRUE ELSE budget[1] > 0

\* the budget after a call
Spend == IF budget = NoLimit THEN budget ELSE <<budget[1] - 1>>

\* faulty variant: the method returns a copy of the receiver
ReturnThis_copy(this) == "copy of " \o this

\* `return this;`: the reference a chainable method returns
ReturnThis(this) == this

\* String.prototype.toUpperCase on a command letter
toUpperCase(s) ==
    CASE s = "m" -> "M"
      [] s = "l" -> "L"
      [] s = "c" -> "C"
      [] s = "q" -> "Q"
      [] s = "t" -> "T"
      [] s = "z" -> "Z"
      [] OTHER -> s

----------------------------------------------------------------------------
(* Path.ts *)

\* faulty variant: the defaults of fill and stroke are exchanged
NewPath_outlined(pathString, relative) ==
    [pathString  |-> IF pathString = undefined THEN "" ELSE pathString[1],
     relative    |-> IF relative = undefined THEN ABSOLUTE ELSE relative[1],
     fillColor   |-> "none",
     strokeColor |-> "black",
     strokeWidth |-> 1]

\* new Path(pathString = "", relative = ABSOLUTE)
NewPath(pathString, relative) ==
    [pathString  |-> IF pathString = undefined THEN "" ELSE pathString[1],
     relative    |-> IF relative = undefined THEN ABSOLUTE ELSE relative[1],
     fillColor   |-> "black",
     strokeColor |-> "none",
     strokeWidth |-> 1]

\* faulty variant: the fragment replaces the accumulated string
addCommand_overwrite(self, cmd, args, relative) ==
    LET cmd1 == IF ~relative THEN toUpperCase(cmd) ELSE cmd
    IN  IF args # null
        THEN [self EXCEPT !.pathString = cmd1 \o " " \o args[1] \o " "]
        ELSE [self EXCEPT !.pathString = cmd1]

\* faulty variant: the mode of the call becomes the stored default
addCommand_sticky(self, cmd, args, relative) ==
    LET cmd1 == IF ~relative THEN toUpperCase(cmd) ELSE cmd
    IN  IF args # null
        THEN [self EXCEPT !.pathString = @ \o cmd1 \o " " \o args[1] \o " ",
                          !.relative = relative]
        ELSE [self EXCEPT !.pathString = @ \o cmd1, !.relative = relative]

addCommand(self, cmd, args, relative) ==
    LET cmd1 == IF ~relative THEN toUpperCase(cmd) ELSE cmd
    IN  IF args # null
        THEN [self EXCEPT !.pathString = @ \o cmd1 \o " " \o args[1] \o " "]
        ELSE [self EXCEPT !.pathString = @ \o cmd1]

\* faulty variant: an omitted mode is the fixed ABSOLUTE, not the stored default
DefaultRelative_fixed(self, relative) ==
    IF relative = undefined THEN ABSOLUTE ELSE relative[1]

\* the value of a parameter declared `relative: boolean = this.relative`
DefaultRelative(self, relative) ==
    IF relative = undefined THEN self.relative ELSE relative[1]

\* faulty variant: the coordinates are emitted y first
moveTo_swapped(self, x, y, relative) ==
    addCommand(self, "m",
               <<NumToString(y) \o "," \o NumToString(x)>>,
               DefaultRelative(self, relative))

moveTo(self, x, y, relative) ==
    addCommand(self, "m",
               <<NumToString(x) \o "," \o NumToString(y)>>,
               DefaultRelative(self, relative))

m(self, dx, dy) == moveTo(self, dx, dy, <<RELATIVE>>)

M(self, x, y) == moveTo(self, x, y, <<ABSOLUTE>>)

lineTo(self, x, y, relative) ==
    addCommand(self, "l",
               <<NumToString(x) \o "," \o NumToString(y)>>,
               DefaultRelative(self, relative))

l(self, dx, dy) == lineTo(self, dx, dy, <<RELATIVE>>)

L(self, x, y) == lineTo(self, x, y, <<ABSOLUTE>>)

\* faulty variant: the end point is emitted before the second control point
curveTo_endFirst(self, x1, y1, x2, y2, endX, endY, relative) ==
    addCommand(self, "c",
               <<NumToString(x1) \o "," \o NumToString(y1) \o " "
                 \o NumToString(endX) \o "," \o NumToString(endY) \o " "
                 \o NumToString(x2) \o "," \o NumToString(y2)>>,
               DefaultRelative(self, relative))

curveTo(self, x1, y1, x2, y2, endX, endY, relative) ==
    addCommand(self, "c",
               <<NumToString(x1) \o "," \o NumToString(y1) \o " "
                 \o NumToString(x2) \o "," \o NumToString(y2) \o " "
                 \o NumToString(endX) \o "," \o NumToString(endY)>>,
               DefaultRelative(self, relative))

c(self, dx1, dy1, dx2, dy2, endDX, endDY) ==
    curveTo(self, dx1, dy1, dx2, dy2, endDX, endDY, <<RELATIVE>>)

C(self, x1, y1, x2, y2, endX, endY) ==
    curveTo(self, x1, y1, x2, y2, endX, endY, <<ABSOLUTE>>)

\* faulty variant: the two pairs are joined by a comma
quadCurveTo_comma(self, x1, y1, endX, endY, relative) ==
    addCommand(self, "q",
               <<NumToString(x1) \o "," \o NumToString(y1) \o ","
                 \o NumToString(endX) \o "," \o NumToString(endY)>>,
               DefaultRelative(self, relative))

quadCurveTo(self, x1, y1, endX, endY, relative) ==
    addCommand(self, "q",
               <<NumToString(x1) \o "," \o NumToString(y1) \o " "
                 \o NumToString(endX) \o "," \o NumToString(endY)>>,
               DefaultRelative(self, relative))

q(self, dx1, dy2, endDX, endDY) ==
    quadCurveTo(self, dx1, dy2, endDX, endDY, <<RELATIVE>>)

Q(self, x1, y1, endX, endY) ==
    quadCurveTo(self, x1, y1, endX, endY, <<ABSOLUTE>>)

cubicCurveTo(self, x, y, relative) ==
    addCommand(self, "t",
               <<NumToString(x) \o "," \o NumToString(y)>>,
               DefaultRelative(self, relative))

\* faulty variant: the shorthand forgets to force the mode
t_default(self, dx, dy) == cubicCurveTo(self, dx, dy, undefined)

t(self, dx, dy) == cubicCurveTo(self, dx, dy, <<RELATIVE>>)

T(self, x, y) == cubicCurveTo(self, x, y, <<ABSOLUTE>>)

\* faulty variant: close follows the stored default like the other commands
close_lower(self) == addCommand(self, "z", null, self.relative)

close(self) == addCommand(self, "Z", null, FALSE)

Z(self) == close(self)

\* faulty variant: the fill color is stored as the stroke color too
setFill_both(self, fillColor) ==
    [self EXCEPT !.fillColor = fillColor, !.strokeColor = fillColor]

setFill(self, fillColor) == [self EXCEPT !.fillColor = fillColor]

\* faulty variant: an omitted width is the initial width 1
setStroke_reset(self, strokeColor, strokeWidth) ==
    [self EXCEPT !.strokeColor = strokeColor,
                 !.strokeWidth = IF strokeWidth = undefined
                                 THEN 1 ELSE strokeWidth[1]]

\* setStroke(strokeColor, strokeWidth = this.strokeWidth)
setStroke(self, strokeColor, strokeWidth) ==
    [self EXCEPT !.strokeColor = strokeColor,
                 !.strokeWidth = IF strokeWidth = undefined
                                 THEN self.strokeWidth ELSE strokeWidth[1]]

\* faulty variant: a negative width is refused and 0 is stored instead
setStrokeWidth_clamped(self, strokeWidth) ==
    [self EXCEPT !.strokeWidth = IF strokeWidth < 0 THEN 0 ELSE strokeWidth]

setStrokeWidth(self, strokeWidth) == [self EXCEPT !.strokeWidth = strokeWidth]

----------------------------------------------------------------------------
(* Calls on the Path objects of the heap *)

\* the call op(args, flag) on Path p leaves it with the fields `after`
PathCall(p, op, args, flag, after) ==
    /\ Len(hist[p]) < MaxCmds
    /\ path' = [path EXCEPT ![p] = after]
    /\ hist' = [hist EXCEPT ![p] = Append(@, [op |-> op, args |-> args, flag |-> flag])]
    /\ CallsLeft /\ budget' = Spend
    /\ last' = [op |-> op, target |-> p, args |-> args, flag |-> flag,
                returned |-> ReturnThis(p)]
    /\ called' = [called EXCEPT ![p] = @ \cup {op}]
    /\ UNCHANGED <<ctor, textCtor, ytext, text, svg, arrays, dom, added>>

CallMoveTo ==
    \E p \in DOMAIN path, a \in PointArgs, f \in Flags :
        PathCall(p, "moveTo", a, f, moveTo(path[p], a[1], a[2], f))

Call_m ==
    \E p \in DOMAIN path, a \in PointArgs :
        PathCall(p, "m", a, undefined, m(path[p], a[1], a[2]))

Call_M ==
    \E p \in DOMAIN path, a \in PointArgs :
        PathCall(p, "M", a, undefined, M(path[p], a[1], a[2]))

CallLineTo ==
    \E p \in DOMAIN path, a \in PointArgs, f \in Flags :
        PathCall(p, "lineTo", a, f, lineTo(path[p], a[1], a[2], f))

Call_l ==
    \E p \in DOMAIN path, a \in PointArgs :
        PathCall(p, "l", a, undefined, l(path[p], a[1], a[2]))

Call_L ==
    \E p \in DOMAIN path, a \in PointArgs :
        PathCall(p, "L", a, undefined, L(path[p], a[1], a[2]))

CallCurveTo ==
    \E p \in DOMAIN path, a \in CurveArgs, f \in Flags :
        PathCall(p, "curveTo", a, f,
                 curveTo(path[p], a[1], a[2], a[3], a[4], a[5], a[6], f))

Call_c ==
    \E p \in DOMAIN path, a \in CurveArgs :
        PathCall(p, "c", a, undefined,
                 c(path[p], a[1], a[2], a[3], a[4], a[5], a[6]))

Call_C ==
    \E p \in DOMAIN path, a \in CurveArgs :
        PathCall(p, "C", a, undefined,
                 C(path[p], a[1], a[2], a[3], a[4], a[5], a[6]))

CallQuadCurveTo ==
    \E p \in DOMAIN path, a \in QuadArgs, f \in Flags :
        PathCall(p, "quadCurveTo", a, f,
                 quadCurveTo(path[p], a[1], a[2], a[3], a[4], f))

Call_q ==
    \E p \in DOMAIN path, a \in QuadArgs :
        PathCall(p, "q", a, undefined, q(path[p], a[1], a[2], a[3], a[4]))

Call_Q ==
    \E p \in DOMAIN path, a \in QuadArgs :
        PathCall(p, "Q", a, undefined, Q(path[p], a[1], a[2], a[3], a[4]))

CallCubicCurveTo ==
    \E p \in DOMAIN path, a \in PointArgs, f \in Flags :
        PathCall(p, "cubicCurveTo", a, f, cubicCurveTo(path[p], a[1], a[2], f))

Call_t ==
    \E p \in DOMAIN path, a \in PointArgs :
        PathCall(p, "t", a, undefined, t(path[p], a[1], a[2]))

Call_T ==
    \E p \in DOMAIN path, a \in PointArgs :
        PathCall(p, "T", a, undefined, T(path[p], a[1], a[2]))

CallClose ==
    \E p \in DOMAIN path : PathCall(p, "close", <<>>, undefined, close(path[p]))

Call_Z ==
    \E p \in DOMAIN path : PathCall(p, "Z", <<>>, undefined, Z(path[p]))

CallSetFill ==
    \E p \in DOMAIN path, color \in Colors :
        /\ path' = [path EXCEPT ![p] = setFill(path[p], color)]
        /\ CallsLeft /\ budget' = Spend
        /\ last' = [op |-> "setFill", target |-> p, args |-> <<color>>,
                    returned |-> ReturnThis(p)]
        /\ called' = [called EXCEPT ![p] = @ \cup {"setFill"}]
        /\ UNCHANGED <<ctor, textCtor, ytext, hist, text, svg, arrays, dom, added>>

CallSetStroke ==
    \E p \in DOMAIN path, color \in StrokeColors,
       width \in {undefined} \cup {<<w>> : w \in Widths} :
        /\ path' = [path EXCEPT ![p] = setStroke(path[p], color, width)]
        /\ CallsLeft /\ budget' = Spend
        /\ last' = [op |-> "setStroke", target |-> p, args |-> <<color, width>>,
                    returned |-> ReturnThis(p)]
        /\ called' = [called EXCEPT ![p] = @ \cup {"setStroke"}]
        /\ UNCHANGED <<ctor, textCtor, ytext, hist, text, svg, arrays, dom, added>>

CallSetStrokeWidth ==
    \E p \in DOMAIN path, width \in Widths :
        /\ path' = [path EXCEPT ![p] = setStrokeWidth(path[p], width)]
        /\ CallsLeft /\ budget' = Spend
        /\ last' = [op |-> "setStrokeWidth", target |-> p, args |-> <<width>>,
                    returned |-> ReturnThis(p)]
        /\ called' = [called EXCEPT ![p] = @ \cup {"setStrokeWidth"}]
        /\ UNCHANGED <<ctor, textCtor, ytext, hist, text, svg, arrays, dom, added>>

----------------------------------------------------------------------------
(* The host document: the DOM primitives the library calls *)

SVG_NS == "http://www.w3.org/2000/svg"

\* document.createElementNS(ns, tag): a new element without attributes
createElementNS(ns, tag) ==
    [namespaceURI |-> ns, tagName |-> tag, attributes |-> <<>>, innerHTML |-> ""]

HasAttribute(element, name) ==
    \E i \in 1..Len(element.attributes) : element.attributes[i][1] = name

\* element.setAttribute(name, value): replaces the value of an attribute
\* the element has, adds the attribute otherwise
setAttribute(element, name, value) ==
    IF HasAttribute(element, name)
    THEN [element EXCEPT !.attributes =
             [i \in 1..Len(@) |-> IF @[i][1] = name THEN <<name, value>> ELSE @[i]]]
    ELSE [element EXCEPT !.attributes = Append(@, <<name, value>>)]

\* element.innerHTML = value
setInnerHTML(element, value) == [element EXCEPT !.innerHTML = value]

\* node.appendChild(element), on the document d
appendChild(d, node, element) ==
    [d EXCEPT ![node].children = Append(@, element)]

\* the element a sequence of primitive calls builds, the first of which
\* creates it
RECURSIVE BuildElement(_)
BuildElement(calls) ==
    IF Len(calls) = 1
    THEN createElementNS(calls[1].args[1], calls[1].args[2])
    ELSE LET element == BuildElement(SubSeq(calls, 1, Len(calls) - 1))
             call == calls[Len(calls)]
         IN  IF call.fn = "setAttribute"
             THEN setAttribute(element, call.args[1], call.args[2])
             ELSE setInnerHTML(element, call.args[1])

\* does node n match the selector?
NodeMatches(n, selector) ==
    CASE selector = "svg" -> TRUE
      [] selector = "#missing" -> n \in LateNodes
      [] OTHER -> FALSE

\* "" is no selector: querySelectorAll throws a SyntaxError on it
ValidSelector(selector) == selector # ""

\* document.querySelectorAll(selector) on the document d: the matching
\* nodes in document order
querySelectorAll(d, selector) ==
    SelectSeq(DocumentOrder, LAMBDA n : n \in DOMAIN d /\ NodeMatches(n, selector))

----------------------------------------------------------------------------
(* Path.ts: materialization *)

\* faulty variant: a Path without instructions yields a bare element
Path_toXMLCalls_nonEmpty(self) ==
    IF self.pathString = ""
    THEN << [fn |-> "createElementNS", args |-> <<SVG_NS, "path">>] >>
    ELSE << [fn |-> "createElementNS", args |-> <<SVG_NS, "path">>],
            [fn |-> "setAttribute", args |-> <<"d", self.pathString>>],
            [fn |-> "setAttribute", args |-> <<"fill", self.fillColor>>],
            [fn |-> "setAttribute", args |-> <<"stroke", self.strokeColor>>],
            [fn |-> "setAttribute",
             args |-> <<"stroke-width", NumToString(self.strokeWidth)>>] >>

\* the primitive calls of Path.toXML, in order
Path_toXMLCalls(self) ==
    << [fn |-> "createElementNS", args |-> <<SVG_NS, "path">>],
       [fn |-> "setAttribute", args |-> <<"d", self.pathString>>],
       [fn |-> "setAttribute", args |-> <<"fill", self.fillColor>>],
       [fn |-> "setAttribute", args |-> <<"stroke", self.strokeColor>>],
       [fn |-> "setAttribute",
        args |-> <<"stroke-width", NumToString(self.strokeWidth)>>] >>

Path_toXML(self) == BuildElement(Path_toXMLCalls(self))

----------------------------------------------------------------------------
(* TextFontProperties.ts, Text.ts *)

\* new TextFontProperties()
NewTextFontProperties ==
    [family |-> << <<>> >>, color |-> "",
     size |-> JSString(""), weight |-> JSString("normal")]

\* faulty variant: without a fonts argument the empty list of
\* TextFontProperties stays in place
NewText_keepDefault(body, x, y, fonts) ==
    [body |-> body, x |-> x, y |-> y, textAnchor |-> "",
     fontProperties |->
         IF fonts = null THEN NewTextFontProperties
         ELSE [NewTextFontProperties EXCEPT !.family = fonts]]

\* new Text(body, x, y, fonts = null)
NewText(body, x, y, fonts) ==
    [body |-> body, x |-> x, y |-> y, textAnchor |-> "",
     fontProperties |-> [NewTextFontProperties EXCEPT !.family = fonts]]

\* Array.prototype.join(",")
RECURSIVE join(_)
join(array) ==
    IF array = <<>> THEN ""
    ELSE IF Len(array) = 1 THEN array[1]
    ELSE array[1] \o "," \o join(Tail(array))

\* faulty variant: the body is set after the attributes
Text_toXMLCalls_bodyLast(self) ==
    << [fn |-> "createElementNS", args |-> <<SVG_NS, "text">>],
       [fn |-> "setAttribute", args |-> <<"x", NumToString(self.x)>>],
       [fn |-> "setAttribute", args |-> <<"y", NumToString(self.y)>>] >>
    \o (IF self.fontProperties.family # null
        THEN << [fn |-> "setAttribute",
                 args |-> <<"font-family", join(self.fontProperties.family[1])>>] >>
        ELSE << >>)
    \o << [fn |-> "setAttribute",
             args |-> <<"font-size", DOMString(self.fontProperties.size)>>],
          [fn |-> "setAttribute", args |-> <<"fill", self.fontProperties.color>>],
          [fn |-> "setAttribute",
             args |-> <<"font-weight", DOMString(self.fontProperties.weight)>>],
          [fn |-> "setAttribute", args |-> <<"text-anchor", self.textAnchor>>],
          [fn |-> "innerHTML", args |-> <<self.body>>] >>

\* faulty variant: an empty list of fonts yields no font-family attribute
Text_toXMLCalls_nonEmpty(self) ==
    << [fn |-> "createElementNS", args |-> <<SVG_NS, "text">>],
       [fn |-> "innerHTML", args |-> <<self.body>>],
       [fn |-> "setAttribute", args |-> <<"x", NumToString(self.x)>>],
       [fn |-> "setAttribute", args |-> <<"y", NumToString(self.y)>>] >>
    \o (IF self.fontProperties.family # null /\ self.fontProperties.family # << <<>> >>
        THEN << [fn |-> "setAttribute",
                 args |-> <<"font-family", join(self.fontProperties.family[1])>>] >>
        ELSE << >>)
    \o << [fn |-> "setAttribute",
             args |-> <<"font-size", DOMString(self.fontProperties.size)>>],
          [fn |-> "setAttribute", args |-> <<"fill", self.fontProperties.color>>],
          [fn |-> "setAttribute",
             args |-> <<"font-weight", DOMString(self.fontProperties.weight)>>],
          [fn |-> "setAttribute", args |-> <<"text-anchor", self.textAnchor>>] >>

\* the primitive calls of Text.toXML, in order
Text_toXMLCalls(self) ==
    << [fn |-> "createElementNS", args |-> <<SVG_NS, "text">>],
       [fn |-> "innerHTML", args |-> <<self.body>>],
       [fn |-> "setAttribute", args |-> <<"x", NumToString(self.x)>>],
       [fn |-> "setAttribute", args |-> <<"y", NumToString(self.y)>>] >>
    \o (IF self.fontProperties.family # null
        THEN << [fn |-> "setAttribute",
                 args |-> <<"font-family", join(self.fontProperties.family[1])>>] >>
        ELSE << >>)
    \o << [fn |-> "setAttribute",
             args |-> <<"font-size", DOMString(self.fontProperties.size)>>],
          [fn |-> "setAttribute", args |-> <<"fill", self.fontProperties.color>>],
          [fn |-> "setAttribute",
             args |-> <<"font-weight", DOMString(self.fontProperties.weight)>>],
          [fn |-> "setAttribute", args |-> <<"text-anchor", self.textAnchor>>] >>

Text_toXML(self) == BuildElement(Text_toXMLCalls(self))

setBody(self, body) == [self EXCEPT !.body = body]

setPosition(self, x, y) == [self EXCEPT !.x = x, !.y = y]

\* setFonts(fonts): fonts is <<list>> for an array
setFonts(self, fonts) == [self EXCEPT !.fontProperties.family = fonts]

setColor(self, color) == [self EXCEPT !.fontProperties.color = color]

\* faulty variant: the argument is stored as it is passed
setSize_raw(self, size) == [self EXCEPT !.fontProperties.size = size]

setSize(self, size) ==
    IF typeof(size) = "number"
    THEN [self EXCEPT !.fontProperties.size = JSString(NumToString(size.value))]
    ELSE [self EXCEPT !.fontProperties.size = size]

setWeight(self, weight) ==
    IF typeof(weight) = "number"
    THEN [self EXCEPT !.fontProperties.weight = JSString(NumToString(weight.value))]
    ELSE [self EXCEPT !.fontProperties.weight = weight]

setAnchor(self, position) == [self EXCEPT !.textAnchor = position]

\* the call op(args) on Text x leaves it with the fields `after`
TextCall(x, op, args, after) ==
    /\ text' = [text EXCEPT ![x] = after]
    /\ CallsLeft /\ budget' = Spend
    /\ last' = [op |-> op, target |-> x, args |-> args,
                returned |-> ReturnThis(x)]
    /\ called' = [called EXCEPT ![x] = @ \cup {op}]
    /\ UNCHANGED <<path, ctor, textCtor, ytext, hist, svg, arrays, dom, added>>

CallSetBody ==
    \E x \in DOMAIN text, body \in Bodies :
        TextCall(x, "setBody", <<body>>, setBody(text[x], body))

CallSetPosition ==
    \E x \in DOMAIN text, a \in Positions :
        TextCall(x, "setPosition", a, setPosition(text[x], a[1], a[2]))

CallSetFonts ==
    \E x \in DOMAIN text, fonts \in FontLists :
        TextCall(x, "setFonts", <<fonts>>, setFonts(text[x], <<fonts>>))

CallSetColor ==
    \E x \in DOMAIN text, color \in Colors :
        TextCall(x, "setColor", <<color>>, setColor(text[x], color))

CallSetSize ==
    \E x \in DOMAIN text, size \in Sizes :
        TextCall(x, "setSize", <<size>>, setSize(text[x], size))

CallSetWeight ==
    \E x \in DOMAIN text, weight \in Weights :
        TextCall(x, "setWeight", <<weight>>, setWeight(text[x], weight))

CallSetAnchor ==
    \E x \in DOMAIN text, position \in Anchors :
        TextCall(x, "setAnchor", <<position>>, setAnchor(text[x], position))

----------------------------------------------------------------------------
(* yash.ts, namespace YASH: class Text *)

\* new YASH.Text(body, x, y, fonts = null)
YASH_NewText(body, x, y, fonts) ==
    [body |-> body, x |-> x, y |-> y, text_anchor |-> "",
     font |-> [family |-> fonts, color |-> "", size |-> null,
               weight |-> "normal", spacing |-> 0]]

\* the string the DOM stores for a value that is null or a string
NullableDOMString(v) == IF v = null THEN "null" ELSE v[1]

\* the primitive calls of YASH.Text.toXML, in order
YASH_Text_toXMLCalls(self) ==
    << [fn |-> "createElementNS", args |-> <<SVG_NS, "text">>],
       [fn |-> "innerHTML", args |-> <<self.body>>],
       [fn |-> "setAttribute", args |-> <<"x", NumToString(self.x)>>],
       [fn |-> "setAttribute", args |-> <<"y", NumToString(self.y)>>] >>
    \o (IF self.font.family # null
        THEN << [fn |-> "setAttribute",
                 args |-> <<"font-family", join(self.font.family[1])>>] >>
        ELSE << >>)
    \o << [fn |-> "setAttribute",
             args |-> <<"font-size", NullableDOMString(self.font.size)>>],
          [fn |-> "setAttribute", args |-> <<"fill", self.font.color>>],
          [fn |-> "setAttribute", args |-> <<"font-weight", self.font.weight>>],
          [fn |-> "setAttribute", args |-> <<"text-anchor", self.text_anchor>>],
          [fn |-> "setAttribute",
             args |-> <<"letter-spacing", NumToString(self.font.spacing)>>] >>

----------------------------------------------------------------------------
(* SVG.ts *)

\* the drawables constructed so far
Drawables == DOMAIN path \cup DOMAIN text \cup DOMAIN ytext

\* the fields of the drawable with id e
FieldsOf(e) ==
    IF e \in DOMAIN path THEN path[e]
    ELSE IF e \in DOMAIN text THEN text[e]
    ELSE ytext[e]

\* faulty variant: a drawable that was added to a container is materialized from
\* the fields it had when it was added
toXMLCalls_snapshot(e) ==
    LET snaps == {a \in UNION {{added[s][i] : i \in 1..Len(added[s])} : s \in DOMAIN added} :
                     a.id = e}
        fields == IF snaps = {} THEN FieldsOf(e) ELSE (CHOOSE a \in snaps : TRUE).fields
    IN  IF e \in DOMAIN path THEN Path_toXMLCalls(fields)
        ELSE IF e \in DOMAIN text THEN Text_toXMLCalls(fields)
        ELSE YASH_Text_toXMLCalls(fields)

\* faulty variant: a drawable can be materialized once; after that it
\* yields a bare element
toXMLCalls_once(e) ==
    IF "toXML" \in called[e]
    THEN << [fn |-> "createElementNS",
             args |-> <<SVG_NS, IF e \in DOMAIN path THEN "path" ELSE "text">>] >>
    ELSE IF e \in DOMAIN path THEN Path_toXMLCalls(path[e])
    ELSE IF e \in DOMAIN text THEN Text_toXMLCalls(text[e])
    ELSE YASH_Text_toXMLCalls(ytext[e])

\* elem.toXML() on the drawable with id e: dispatch on its class
toXMLCalls(e) ==
    IF e \in DOMAIN path THEN Path_toXMLCalls(path[e])
    ELSE IF e \in DOMAIN text THEN Text_toXMLCalls(text[e])
    ELSE YASH_Text_toXMLCalls(ytext[e])

toXML(e) == BuildElement(toXMLCalls(e))

\* a direct call e.toXML(): the element is returned to the caller and
\* attached nowhere; `again` tells that the call before was the same
CallToXML ==
    \E e \in Drawables :
        /\ CallsLeft /\ budget' = Spend
        /\ last' = [op |-> "toXML", target |-> e,
                    result |-> toXML(e), calls |-> toXMLCalls(e),
                    again |-> (last.op = "toXML" /\ last.target = e)]
        /\ called' = [called EXCEPT ![e] = @ \cup {"toXML"}]
        /\ UNCHANGED <<path, ctor, textCtor, ytext, hist, text, svg, arrays, dom, added>>

\* new SVG(selector = "", elements = []); `elements` is the id of the array
NewSVG(selector, elements) == [selector |-> selector, elements |-> elements]

\* faulty variant: a drawable the array holds is not pushed again
add_unique(self, as, element) ==
    IF \E i \in 1..Len(as[self.elements]) : as[self.elements][i] = element
    THEN as
    ELSE [as EXCEPT ![self.elements] = Append(@, element)]

\* SVG.add: this.elements.push(element), on the heap of arrays
add(self, as, element) == [as EXCEPT ![self.elements] = Append(@, element)]

\* faulty variant: the elements are appended last first
RECURSIVE forEachAppend_reversed(_, _, _)
forEachAppend_reversed(elements, node, d) ==
    IF elements = <<>> THEN d
    ELSE appendChild(forEachAppend_reversed(Tail(elements), node, d),
                     node, toXML(Head(elements)))

\* this.elements.forEach(elem => svg.appendChild(elem.toXML())) with svg a
\* node: the document after it
RECURSIVE forEachAppend(_, _, _)
forEachAppend(elements, node, d) ==
    IF elements = <<>> THEN d
    ELSE forEachAppend(Tail(elements), node,
                       appendChild(d, node, toXML(Head(elements))))

\* the calls that forEach makes, in order: per element, toXML, the
\* primitives inside it, then appendChild
RECURSIVE forEachCalls(_, _)
forEachCalls(elements, node) ==
    IF elements = <<>> THEN <<>>
    ELSE << [fn |-> "toXML", args |-> <<Head(elements)>>] >>
         \o toXMLCalls(Head(elements))
         \o << [fn |-> "appendChild", args |-> <<node, toXML(Head(elements))>>] >>
         \o forEachCalls(Tail(elements), node)

\* faulty variant: the lookup sees only the nodes the document started with
render_stale(self, as, d) ==
    LET elements == as[self.elements]
    IN  IF ~ValidSelector(self.selector)
        THEN [result |-> "SyntaxError", dom |-> d, calls |-> <<>>]
        ELSE LET matches == SelectSeq(querySelectorAll(d, self.selector),
                                      LAMBDA n : n \in Nodes)
                 svgNode == IF matches = <<>> THEN undefined ELSE <<matches[1]>>
             IN  IF elements = <<>>
                 THEN [result |-> "returned", dom |-> d, calls |-> <<>>]
                 ELSE IF svgNode = undefined
                 THEN [result |-> "TypeError", dom |-> d, calls |-> <<>>]
                 ELSE [result |-> "returned",
                       dom |-> forEachAppend(elements, svgNode[1], d),
                       calls |-> forEachCalls(elements, svgNode[1])]

\* faulty variant: the sink is the last node the selector matches
render_lastMatch(self, as, d) ==
    LET elements == as[self.elements]
    IN  IF ~ValidSelector(self.selector)
        THEN [result |-> "SyntaxError", dom |-> d, calls |-> <<>>]
        ELSE LET matches == querySelectorAll(d, self.selector)
                 svgNode == IF matches = <<>> THEN undefined
                            ELSE <<matches[Len(matches)]>>
             IN  IF elements = <<>>
                 THEN [result |-> "returned", dom |-> d, calls |-> <<>>]
                 ELSE IF svgNode = undefined
                 THEN [result |-> "TypeError", dom |-> d, calls |-> <<>>]
                 ELSE [result |-> "returned",
                       dom |-> forEachAppend(elements, svgNode[1], d),
                       calls |-> forEachCalls(elements, svgNode[1])]

\* faulty variant: the sink is emptied before the elements are appended
render_fresh(self, as, d) ==
    LET elements == as[self.elements]
    IN  IF ~ValidSelector(self.selector)
        THEN [result |-> "SyntaxError", dom |-> d, calls |-> <<>>]
        ELSE LET matches == querySelectorAll(d, self.selector)
                 svgNode == IF matches = <<>> THEN undefined ELSE <<matches[1]>>
             IN  IF elements = <<>>
                 THEN [result |-> "returned", dom |-> d, calls |-> <<>>]
                 ELSE IF svgNode = undefined
                 THEN [result |-> "TypeError", dom |-> d, calls |-> <<>>]
                 ELSE [result |-> "returned",
                       dom |-> forEachAppend(elements, svgNode[1],
                                   [d EXCEPT ![svgNode[1]].children = <<>>]),
                       calls |-> forEachCalls(elements, svgNode[1])]

\* SVG.render: how it ends, the document after it and the calls it made.
\*   querySelectorAll throws on an invalid selector;
\*   [0] of an empty list is undefined, and then the callback throws a
\*   TypeError at `svg.appendChild`, before elem.toXML() is evaluated,
\*   which happens only if forEach calls it, that is on the first element.
render(self, as, d) ==
    LET elements == as[self.elements]
    IN  IF ~ValidSelector(self.selector)
        THEN [result |-> "SyntaxError", dom |-> d, calls |-> <<>>]
        ELSE LET matches == querySelectorAll(d, self.selector)
                 svgNode == IF matches = <<>> THEN undefined ELSE <<matches[1]>>
             IN  IF elements = <<>>
                 THEN [result |-> "returned", dom |-> d, calls |-> <<>>]
                 ELSE IF svgNode = undefined
                 THEN [result |-> "TypeError", dom |-> d, calls |-> <<>>]
                 ELSE [result |-> "returned",
                       dom |-> forEachAppend(elements, svgNode[1], d),
                       calls |-> forEachCalls(elements, svgNode[1])]

\* faulty variant: add attaches the element to the sink at once
CallAdd_eager ==
    \E s \in DOMAIN svg, e \in Drawables :
        /\ Len(arrays[svg[s].elements]) < MaxElems
        /\ arrays' = add(svg[s], arrays, e)
        /\ added' = [added EXCEPT ![s] = Append(@, [id |-> e, fields |-> FieldsOf(e)])]
        /\ dom' = IF /\ ValidSelector(svg[s].selector)
                     /\ querySelectorAll(dom, svg[s].selector) # <<>>
                  THEN appendChild(dom, querySelectorAll(dom, svg[s].selector)[1],
                                   toXML(e))
                  ELSE dom
        /\ CallsLeft /\ budget' = Spend
        /\ last' = [op |-> "add", target |-> s, args |-> <<e>>,
                    returned |-> ReturnThis(s)]
        /\ called' = [called EXCEPT ![s] = @ \cup {"add"}]
        /\ UNCHANGED <<path, ctor, textCtor, ytext, hist, text, svg>>

CallAdd ==
    \E s \in DOMAIN svg, e \in Drawables :
        /\ Len(arrays[svg[s].elements]) < MaxElems
        /\ arrays' = add(svg[s], arrays, e)
        /\ added' = [added EXCEPT ![s] = Append(@, [id |-> e, fields |-> FieldsOf(e)])]
        /\ CallsLeft /\ budget' = Spend
        /\ last' = [op |-> "add", target |-> s, args |-> <<e>>,
                    returned |-> ReturnThis(s)]
        /\ called' = [called EXCEPT ![s] = @ \cup {"add"}]
        /\ UNCHANGED <<path, ctor, textCtor, ytext, hist, text, svg, dom>>

\* faulty variant: a render that returns empties the container
CallRender_clearing ==
    \E s \in DOMAIN svg :
        LET r == render(svg[s], arrays, dom)
        IN  /\ \A n \in DOMAIN r.dom : Len(r.dom[n].children) <= MaxChildren
            /\ dom' = r.dom
            /\ arrays' = IF r.result = "returned"
                         THEN [arrays EXCEPT ![svg[s].elements] = <<>>]
                         ELSE arrays
            /\ CallsLeft /\ budget' = Spend
            /\ last' = [op |-> "render", target |-> s,
                        result |-> r.result, calls |-> r.calls]
            /\ called' = [called EXCEPT ![s] = @ \cup {"render:" \o r.result}]
            /\ UNCHANGED <<path, ctor, textCtor, ytext, hist, text, svg, added>>

CallRender ==
    \E s \in DOMAIN svg :
        LET r == render(svg[s], arrays, dom)
        IN  /\ \A n \in DOMAIN r.dom : Len(r.dom[n].children) <= MaxChildren
            /\ dom' = r.dom
            /\ CallsLeft /\ budget' = Spend
            /\ last' = [op |-> "render", target |-> s,
                        result |-> r.result, calls |-> r.calls]
            /\ called' = [called EXCEPT ![s] = @ \cup {"render:" \o r.result}]
            /\ UNCHANGED <<path, ctor, textCtor, ytext, hist, text, svg, arrays, added>>

\* the host page inserts a node into the document; render looks the sink
\* up in the document as it is at the time of the call
HostInsert ==
    \E n \in LateNodes :
        /\ n \notin DOMAIN dom
        /\ dom' = [k \in DOMAIN dom \cup {n} |->
                       IF k = n THEN [children |-> <<>>] ELSE dom[k]]
        /\ last' = [op |-> "insert", target |-> n]
        /\ UNCHANGED <<path, ctor, textCtor, ytext, called, hist, text, svg, arrays,
                       added, budget>>

----------------------------------------------------------------------------
(* Specifications *)

\* Paths constructed with some seed (or none) and some mode (or none)
InitPaths ==
    /\ ctor \in [PathIds -> [pathString : {undefined} \cup {<<s>> : s \in Seeds},
                             relative   : Flags]]
    /\ path = [p \in PathIds |-> NewPath(ctor[p].pathString, ctor[p].relative)]
    /\ hist = [p \in PathIds |-> <<>>]

\* Paths constructed as new Path()
InitDefaultPaths ==
    /\ ctor = [p \in PathIds |-> [pathString |-> undefined, relative |-> undefined]]
    /\ path = [p \in PathIds |-> NewPath(undefined, undefined)]
    /\ hist = [p \in PathIds |-> <<>>]

\* Texts constructed as new Text("", 0, 0)
InitTexts ==
    /\ ytext = <<>>
    /\ textCtor = [x \in TextIds |-> [body |-> "", x |-> 0, y |-> 0, fonts |-> undefined]]
    /\ text = [x \in TextIds |-> NewText("", 0, 0, null)]

\* containers constructed with some selector and an empty array of their own
InitSvgs ==
    /\ \E sel \in [SvgIds -> Selectors] :
           svg = [s \in SvgIds |-> NewSVG(sel[s], s)]
    /\ arrays = [s \in SvgIds |-> <<>>]
    /\ added = [s \in SvgIds |-> <<>>]

InitDom == dom = [n \in Nodes |-> [children |-> <<>>]]

\* no method has been called on any object
InitCalled ==
    called = [o \in DOMAIN path \cup DOMAIN text \cup DOMAIN ytext \cup DOMAIN svg |-> {}]

Init ==
    /\ InitPaths /\ InitTexts /\ InitSvgs /\ InitDom /\ InitCalled
    /\ last = [op |-> "new"] /\ budget = NoLimit

NextPath ==
    \/ CallMoveTo \/ Call_m \/ Call_M
    \/ CallLineTo \/ Call_l \/ Call_L
    \/ CallCurveTo \/ Call_c \/ Call_C
    \/ CallQuadCurveTo \/ Call_q \/ Call_Q
    \/ CallCubicCurveTo \/ Call_t \/ Call_T
    \/ CallClose \/ Call_Z

\* the container's operations, with one mutator of each kind of the
\* drawables it holds: a Path command, a Path setter, a Text setter
NextRender ==
    \/ CallAdd \/ CallRender
    \/ CallClose \/ CallSetFill \/ CallSetBody

Next == NextPath \/ NextRender

Spec == Init /\ [][Next]_vars

\* the command calls on Paths alone: no Text, no container
InitPath ==
    /\ InitPaths
    /\ text = <<>> /\ textCtor = <<>> /\ ytext = <<>>
    /\ svg = <<>> /\ arrays = <<>> /\ added = <<>> /\ InitDom /\ InitCalled
    /\ last = [op |-> "new"] /\ budget = NoLimit

SpecPath == InitPath /\ [][NextPath]_vars

\* one container, a Path and a Text, and a document
InitRender ==
    /\ InitDefaultPaths /\ InitTexts /\ InitSvgs /\ InitDom /\ InitCalled
    /\ last = [op |-> "new"] /\ budget = NoLimit

SpecRender == InitRender /\ [][NextRender]_vars

\* the attribute setters and the materialization of one Path
InitAttr ==
    /\ InitPaths
    /\ text = <<>> /\ textCtor = <<>> /\ ytext = <<>>
    /\ svg = <<>> /\ arrays = <<>> /\ added = <<>> /\ InitDom /\ InitCalled
    /\ last = [op |-> "new"] /\ budget = NoLimit

NextAttr ==
    \/ CallSetFill \/ CallSetStroke \/ CallSetStrokeWidth
    \/ CallClose \/ CallToXML

SpecAttr == InitAttr /\ [][NextAttr]_vars

\* Texts constructed with a body, a position and a list of fonts or none
InitTextsWithFonts ==
    /\ textCtor \in [TextIds -> [body : Bodies, x : {0}, y : {0},
                                 fonts : {undefined} \cup {<<f>> : f \in FontLists}]]
    /\ text = [x \in TextIds |->
                  NewText(textCtor[x].body, textCtor[x].x, textCtor[x].y,
                          textCtor[x].fonts)]

\* the setters and the materialization of one Text
InitText ==
    /\ InitTextsWithFonts
    /\ ytext = <<>>
    /\ path = <<>> /\ ctor = <<>> /\ hist = <<>>
    /\ svg = <<>> /\ arrays = <<>> /\ added = <<>> /\ InitDom /\ InitCalled
    /\ last = [op |-> "new"] /\ budget = NoLimit

NextText ==
    \/ CallSetFonts \/ CallSetSize \/ CallSetWeight
    \/ CallSetPosition \/ CallSetColor \/ CallSetAnchor
    \/ CallToXML

SpecText == InitText /\ [][NextText]_vars

\* YASH.Texts constructed with a body, a position and a list of fonts or
\* none
InitYTexts ==
    \E fonts \in {undefined} \cup {<<f>> : f \in FontLists} :
        ytext = [y \in YTextIds |-> YASH_NewText("hello", 0, 0, fonts)]

\* the elements the three classes of drawables materialize to
InitElements ==
    /\ InitDefaultPaths /\ InitTextsWithFonts /\ InitYTexts
    /\ svg = <<>> /\ arrays = <<>> /\ added = <<>> /\ InitDom /\ InitCalled
    /\ last = [op |-> "new"] /\ budget = NoLimit

NextElements == CallToXML \/ CallSetFonts \/ CallSetStroke \/ CallClose

SpecElements == InitElements /\ [][NextElements]_vars

\* two containers on the selector "svg": each constructed with an array
\* of its own (as with the default `elements = []`, a new array per call)
\* or both with the same array
InitSvgPairs ==
    /\ \E el \in [SvgPairIds -> ArrayIds] :
           /\ \/ \A s \in SvgPairIds : el[s] = s
              \/ \A s \in SvgPairIds : el[s] = "a"
           /\ svg = [s \in SvgPairIds |-> NewSVG("svg", el[s])]
    /\ arrays = [a \in {svg[s].elements : s \in SvgPairIds} |-> <<>>]
    /\ added = [s \in SvgPairIds |-> <<>>]

InitTwo ==
    /\ InitDefaultPaths /\ InitTexts /\ InitSvgPairs /\ InitDom /\ InitCalled
    /\ last = [op |-> "new"] /\ budget = NoLimit

NextTwo == CallAdd \/ CallRender

SpecTwo == InitTwo /\ [][NextTwo]_vars

\* every method of the three classes, in runs of at most MaxCalls calls:
\* either a Text alone, or a Path constructed with some mode and a
\* container on the selector "svg"
InitMethods ==
    /\ \/ /\ InitTextsWithFonts
          /\ path = <<>> /\ ctor = <<>> /\ hist = <<>>
          /\ svg = <<>> /\ arrays = <<>> /\ added = <<>>
       \/ /\ ctor \in [PathIds -> [pathString : {undefined}, relative : Flags]]
          /\ path = [p \in PathIds |-> NewPath(ctor[p].pathString, ctor[p].relative)]
          /\ hist = [p \in PathIds |-> <<>>]
          /\ text = <<>> /\ textCtor = <<>>
          /\ svg = [s \in SvgIds |-> NewSVG("svg", s)]
          /\ arrays = [s \in SvgIds |-> <<>>]
          /\ added = [s \in SvgIds |-> <<>>]
    /\ ytext = <<>> /\ InitDom /\ InitCalled
    /\ last = [op |-> "new"]
    /\ budget = <<MaxCalls>>

NextMethods ==
    \/ NextPath
    \/ CallSetFill \/ CallSetStroke \/ CallSetStrokeWidth
    \/ CallSetBody \/ CallSetPosition \/ CallSetFonts \/ CallSetColor
    \/ CallSetSize \/ CallSetWeight \/ CallSetAnchor
    \/ CallToXML \/ CallAdd \/ CallRender

SpecMethods == InitMethods /\ [][NextMethods]_vars

\* one container and a document that gains a node while the container is
\* in use
NextRetry == CallAdd \/ CallRender \/ HostInsert

SpecRetry == InitRender /\ [][NextRetry]_vars

----------------------------------------------------------------------------
(* The command format of the specification, section 4.1: the yardstick the *)
(* claims about Path are measured against.                                  *)

GeneralOps == {"moveTo", "lineTo", "curveTo", "quadCurveTo", "cubicCurveTo"}
LowerOps == {"m", "l", "c", "q", "t"}
UpperOps == {"M", "L", "C", "Q", "T"}
CloseOps == {"close", "Z"}

\* the command letter of a call, lower case and upper case
LowerLetter(op) ==
    CASE op \in {"moveTo", "m", "M"} -> "m"
      [] op \in {"lineTo", "l", "L"} -> "l"
      [] op \in {"curveTo", "c", "C"} -> "c"
      [] op \in {"quadCurveTo", "q", "Q"} -> "q"
      [] op \in {"cubicCurveTo", "t", "T"} -> "t"

UpperLetter(op) ==
    CASE op \in {"moveTo", "m", "M"} -> "M"
      [] op \in {"lineTo", "l", "L"} -> "L"
      [] op \in {"curveTo", "c", "C"} -> "C"
      [] op \in {"quadCurveTo", "q", "Q"} -> "Q"
      [] op \in {"cubicCurveTo", "t", "T"} -> "T"

\* "a,b c,d e,f": the arguments in pairs, in argument order
RECURSIVE PairsText(_)
PairsText(args) ==
    IF Len(args) = 2
    THEN ToString(args[1]) \o "," \o ToString(args[2])
    ELSE ToString(args[1]) \o "," \o ToString(args[2]) \o " "
         \o PairsText(SubSeq(args, 3, Len(args)))

\* format(letter, args, relative) for a command with arguments
FormatArgs(op, args, relative) ==
    (IF relative THEN LowerLetter(op) ELSE UpperLetter(op))
    \o " " \o PairsText(args) \o " "

\* the mode a call resolves to on a Path whose stored default is `default`
ResolvedMode(call, default) ==
    CASE call.op \in LowerOps -> RELATIVE
      [] call.op \in UpperOps -> ABSOLUTE
      [] OTHER -> IF call.flag = undefined THEN default ELSE call.flag[1]

\* the fragment of one call
Fragment(call, default) ==
    IF call.op \in CloseOps THEN "Z"
    ELSE FormatArgs(call.op, call.args, ResolvedMode(call, default))

RECURSIVE Fragments(_, _)
Fragments(calls, default) ==
    IF calls = <<>> THEN ""
    ELSE Fragment(Head(calls), default) \o Fragments(Tail(calls), default)

\* the constructor's arguments, defaults applied
SeedOf(p) == IF ctor[p].pathString = undefined THEN "" ELSE ctor[p].pathString[1]
ModeOf(p) == IF ctor[p].relative = undefined THEN ABSOLUTE ELSE ctor[p].relative[1]

\* this step is a call on Path p, appended to its history
Called(p) == hist'[p] # hist[p]
NewCall(p) == hist'[p][Len(hist'[p])]

----------------------------------------------------------------------------
(* Claims about the Path command string *)

\* C1: the accumulated pathString is the constructor's seed followed by the
\* fragments of all calls made so far, in call order: nothing is reordered,
\* merged, removed or rewritten.
C1_AppendOnly ==
    \A p \in DOMAIN path :
        path[p].pathString = SeedOf(p) \o Fragments(hist[p], ModeOf(p))

\* two calls with different fragments were made on a Path with a seed
C1_Witness ==
    \E p \in DOMAIN path :
        /\ SeedOf(p) # ""
        /\ Len(hist[p]) = 2
        /\ Fragment(hist[p][1], ModeOf(p)) # Fragment(hist[p][2], ModeOf(p))

\* C2: a general-form call with the mode flag omitted emits the upper-case
\* letter when the Path's stored default at the time of the call is absolute
\* and the lower-case letter when it is relative; with the flag passed, the
\* case follows the flag whatever the stored default.
C2_ModeResolution ==
    [][\A p \in DOMAIN path :
        (Called(p) /\ NewCall(p).op \in GeneralOps) =>
            LET call == NewCall(p)
                letter == IF call.flag = undefined
                          THEN (IF path[p].relative = RELATIVE
                                THEN LowerLetter(call.op) ELSE UpperLetter(call.op))
                          ELSE (IF call.flag[1] = RELATIVE
                                THEN LowerLetter(call.op) ELSE UpperLetter(call.op))
            IN  path'[p].pathString =
                    path[p].pathString \o letter \o " " \o PairsText(call.args) \o " "
      ]_vars

\* one Path has received a call without the flag and a call whose flag is
\* the opposite of the stored default
C2_Witness ==
    \E p \in DOMAIN path :
        /\ Len(hist[p]) = 2
        /\ hist[p][1].op \in GeneralOps /\ hist[p][1].flag = undefined
        /\ hist[p][2].op \in GeneralOps /\ hist[p][2].flag = <<~path[p].relative>>
        /\ path[p].relative = RELATIVE

\* the general form a shorthand stands for, applied to the fields `self`
GeneralForm(self, op, a) ==
    CASE op = "m" -> moveTo(self, a[1], a[2], <<RELATIVE>>)
      [] op = "M" -> moveTo(self, a[1], a[2], <<ABSOLUTE>>)
      [] op = "l" -> lineTo(self, a[1], a[2], <<RELATIVE>>)
      [] op = "L" -> lineTo(self, a[1], a[2], <<ABSOLUTE>>)
      [] op = "c" -> curveTo(self, a[1], a[2], a[3], a[4], a[5], a[6], <<RELATIVE>>)
      [] op = "C" -> curveTo(self, a[1], a[2], a[3], a[4], a[5], a[6], <<ABSOLUTE>>)
      [] op = "q" -> quadCurveTo(self, a[1], a[2], a[3], a[4], <<RELATIVE>>)
      [] op = "Q" -> quadCurveTo(self, a[1], a[2], a[3], a[4], <<ABSOLUTE>>)
      [] op = "t" -> cubicCurveTo(self, a[1], a[2], <<RELATIVE>>)
      [] op = "T" -> cubicCurveTo(self, a[1], a[2], <<ABSOLUTE>>)

\* C3: a lower-case shorthand leaves the Path as the general form with the
\* same numbers and mode RELATIVE would, an upper-case shorthand as the
\* general form with mode ABSOLUTE, whatever the stored default mode.
C3_Shorthands ==
    [][\A p \in DOMAIN path :
        (Called(p) /\ NewCall(p).op \in LowerOps \cup UpperOps) =>
            path'[p] = GeneralForm(path[p], NewCall(p).op, NewCall(p).args)
      ]_vars

\* a shorthand was called whose mode is the opposite of the stored default
C3_Witness ==
    \E p \in DOMAIN path :
        /\ last.op \in LowerOps /\ last.target = p /\ path[p].relative = ABSOLUTE
        /\ Len(hist[p]) = 2 /\ hist[p][1].op \in UpperOps

\* C4: close() and Z() append exactly "Z", on a Path whose default mode is
\* absolute and on one whose default mode is relative, after any calls.
C4_Close ==
    [][\A p \in DOMAIN path :
        (Called(p) /\ NewCall(p).op \in CloseOps) =>
            path'[p].pathString = path[p].pathString \o "Z"
      ]_vars

\* close was called on a relative Path after another command
C4_Witness ==
    \E p \in DOMAIN path :
        /\ last.op \in CloseOps /\ last.target = p
        /\ path[p].relative = RELATIVE
        /\ Len(hist[p]) = 2 /\ hist[p][1].op \notin CloseOps

\* C5: moveTo(x, y) without a mode flag on a Path whose default mode is
\* absolute appends "M x,y "; m(x, y) appends "m x,y " on any Path.
C5_MoveTo ==
    [][\A p \in DOMAIN path :
        Called(p) =>
            LET call == NewCall(p)
                xy == ToString(call.args[1]) \o "," \o ToString(call.args[2])
            IN  /\ (call.op = "moveTo" /\ call.flag = undefined
                        /\ path[p].relative = ABSOLUTE)
                   => path'[p].pathString = path[p].pathString \o "M " \o xy \o " "
                /\ call.op = "m"
                   => path'[p].pathString = path[p].pathString \o "m " \o xy \o " "
      ]_vars

\* moveTo without a flag on an absolute Path, then m, with a negative and a
\* two-digit coordinate
C5_Witness ==
    \E p \in DOMAIN path :
        /\ path[p].relative = ABSOLUTE
        /\ Len(hist[p]) = 2
        /\ hist[p][1] = [op |-> "moveTo", args |-> <<-1, 12>>, flag |-> undefined]
        /\ hist[p][2].op = "m"

\* C6: curveTo in absolute mode appends "C x1,y1 x2,y2 ex,ey " and in
\* relative mode (shorthand c) "c x1,y1 x2,y2 ex,ey ".
C6_CurveTo ==
    [][\A p \in DOMAIN path :
        (Called(p) /\ NewCall(p).op \in {"curveTo", "c", "C"}) =>
            LET call == NewCall(p)
                a == call.args
                body == ToString(a[1]) \o "," \o ToString(a[2]) \o " "
                        \o ToString(a[3]) \o "," \o ToString(a[4]) \o " "
                        \o ToString(a[5]) \o "," \o ToString(a[6]) \o " "
                relative == ResolvedMode(call, path[p].relative)
            IN  path'[p].pathString =
                    path[p].pathString
                    \o (IF relative THEN "c " ELSE "C ") \o body
      ]_vars

\* the specification's example: curveTo(1,2,3,4,5,6) absolute, then c
C6_Witness ==
    \E p \in DOMAIN path :
        /\ Len(hist[p]) = 2
        /\ hist[p][1].op = "curveTo" /\ hist[p][1].args = <<1, 2, 3, 4, 5, 6>>
        /\ ResolvedMode(hist[p][1], path[p].relative) = ABSOLUTE
        /\ hist[p][2].op = "c"
        /\ path[p].pathString = SeedOf(p) \o "C 1,2 3,4 5,6 " \o Fragment(hist[p][2], RELATIVE)

\* C7: every command with arguments appends letter, one space, the
\* arguments in pairs "a,b" in argument order separated by one space, and
\* one trailing space: lineTo "L x,y " / "l x,y ", quadCurveTo
\* "Q x1,y1 ex,ey " / "q x1,y1 ex,ey ", cubicCurveTo "T x,y " / "t x,y ".
C7_ArgumentFormat ==
    [][\A p \in DOMAIN path :
        (Called(p) /\ NewCall(p).op \notin CloseOps) =>
            LET call == NewCall(p)
                a == call.args
                relative == ResolvedMode(call, path[p].relative)
                frag == path'[p].pathString
            IN  /\ frag = path[p].pathString \o FormatArgs(call.op, a, relative)
                /\ call.op \in {"lineTo", "l", "L"} =>
                     frag = path[p].pathString \o (IF relative THEN "l " ELSE "L ")
                            \o ToString(a[1]) \o "," \o ToString(a[2]) \o " "
                /\ call.op \in {"quadCurveTo", "q", "Q"} =>
                     frag = path[p].pathString \o (IF relative THEN "q " ELSE "Q ")
                            \o ToString(a[1]) \o "," \o ToString(a[2]) \o " "
                            \o ToString(a[3]) \o "," \o ToString(a[4]) \o " "
                /\ call.op \in {"cubicCurveTo", "t", "T"} =>
                     frag = path[p].pathString \o (IF relative THEN "t " ELSE "T ")
                            \o ToString(a[1]) \o "," \o ToString(a[2]) \o " "
      ]_vars

\* a quadCurveTo and a cubicCurveTo have been appended to one Path
C7_Witness ==
    \E p \in DOMAIN path :
        /\ Len(hist[p]) = 2
        /\ hist[p][1].op = "quadCurveTo" /\ hist[p][1].args = <<-5, 0, 10, -2>>
        /\ hist[p][2].op = "cubicCurveTo"

----------------------------------------------------------------------------
(* Claims about the container *)

\* this step is a render() of container s
Rendered(s) == last'.op = "render" /\ last'.target = s

\* the selector of container s matches a node of the document
MatchesSink(s) ==
    ValidSelector(svg[s].selector) /\ querySelectorAll(dom, svg[s].selector) # <<>>

\* the first node the selector of container s matches
Sink(s) == querySelectorAll(dom, svg[s].selector)[1]

\* the drawables of container s in the order of the add calls
AddOrder(s) == [i \in 1..Len(added[s]) |-> added[s][i].id]

\* the calls of a render that enter a method or append: what remains of
\* `calls` without the primitives inside toXML
Outline(calls) == SelectSeq(calls, LAMBDA k : k.fn \in {"toXML", "appendChild"})

\* C8: when the selector matches a sink, render() appends to that sink one
\* materialized element per drawable of the container, in the order of the
\* add calls, each drawable being materialized immediately before its own
\* element is appended.
C8_RenderOrder ==
    [][\A s \in DOMAIN svg :
        (Rendered(s) /\ MatchesSink(s)) =>
            LET order == AddOrder(s)
                n == Len(order)
            IN  /\ dom'[Sink(s)].children =
                       dom[Sink(s)].children \o [i \in 1..n |-> toXML(order[i])]
                /\ Len(Outline(last'.calls)) = 2 * n
                /\ \A i \in 1..n :
                       /\ Outline(last'.calls)[2 * i - 1] =
                              [fn |-> "toXML", args |-> <<order[i]>>]
                       /\ Outline(last'.calls)[2 * i] =
                              [fn |-> "appendChild",
                               args |-> <<Sink(s), toXML(order[i])>>]
      ]_vars

\* a render appended the elements of two different drawables
C8_Witness ==
    \E s \in DOMAIN svg :
        /\ last.op = "render" /\ last.target = s /\ last.result = "returned"
        /\ AddOrder(s) = <<"t1", "p1">>
        /\ Len(dom[Sink(s)].children) = 2
        /\ dom[Sink(s)].children[1].tagName = "text"
        /\ dom[Sink(s)].children[2].tagName = "path"

\* the value of attribute `name` of an element that has it
AttributeOf(element, name) ==
    LET i == CHOOSE i \in 1..Len(element.attributes) : element.attributes[i][1] = name
    IN  element.attributes[i][2]

\* the element shows the fields of a drawable: a Path's instructions and
\* colors, a Text's body
Shows(element, e, fields) ==
    IF e \in DOMAIN path
    THEN /\ element.tagName = "path"
         /\ AttributeOf(element, "d") = fields.pathString
         /\ AttributeOf(element, "fill") = fields.fillColor
    ELSE /\ element.tagName = "text"
         /\ element.innerHTML = fields.body

\* the elements a render appended, in order
Appended(calls) ==
    LET appends == SelectSeq(calls, LAMBDA k : k.fn = "appendChild")
    IN  [i \in 1..Len(appends) |-> appends[i].args[2]]

\* C9: a container does not snapshot its drawables: the element render
\* appends for a drawable shows the drawable's fields at render time, also
\* when they were changed after the add call.
C9_NoSnapshot ==
    \A s \in DOMAIN svg :
        (last.op = "render" /\ last.target = s /\ MatchesSink(s)) =>
            /\ Len(Appended(last.calls)) = Len(added[s])
            /\ \A i \in 1..Len(added[s]) :
                   Shows(Appended(last.calls)[i], added[s][i].id,
                         FieldsOf(added[s][i].id))

\* a render of a Path and a Text both changed after they were added: the
\* elements do not show the fields of the time of the add call
C9_Witness ==
    \E s \in DOMAIN svg :
        /\ last.op = "render" /\ last.target = s /\ MatchesSink(s)
        /\ Len(added[s]) = 2
        /\ added[s][1].id \in DOMAIN path /\ added[s][2].id \in DOMAIN text
        /\ added[s][1].fields.pathString # path[added[s][1].id].pathString
        /\ added[s][2].fields.body # text[added[s][2].id].body
        /\ \A i \in 1..2 :
               ~Shows(Appended(last.calls)[i], added[s][i].id, added[s][i].fields)

\* C10: render() on a container whose selector matches no sink ends in a
\* reported error, never in a silent no-op, whatever the number of
\* drawables the container holds (including none).
C10_LookupFailureReported ==
    \A s \in DOMAIN svg :
        (/\ last.op = "render" /\ last.target = s
         /\ ValidSelector(svg[s].selector)
         /\ querySelectorAll(dom, svg[s].selector) = <<>>)
        => last.result # "returned"

\* a node of the document matches the selector of container s
SinkPresent(s) ==
    /\ svg[s].selector # ""
    /\ \E n \in DOMAIN dom : NodeMatches(n, svg[s].selector)

\* the first such node in document order
FirstSink(s) ==
    CHOOSE n \in DOMAIN dom :
        /\ NodeMatches(n, svg[s].selector)
        /\ \A k \in DOMAIN dom : NodeMatches(k, svg[s].selector) => n <= k

\* C11: a render() that fails because no sink is found leaves the
\* container's selector and sequence and all Path and Text fields unchanged
\* and attaches nothing; a later render() on the same container, once a sink
\* matches, appends the drawables to it in add order.
C11_FailedRenderRetry ==
    [][\A s \in DOMAIN svg :
        Rendered(s) =>
            /\ last'.result # "returned" =>
                   UNCHANGED <<svg, arrays, path, text, ytext, dom>>
            /\ ("render:TypeError" \in called[s] /\ SinkPresent(s)) =>
                   /\ last'.result = "returned"
                   /\ dom'[FirstSink(s)].children =
                          dom[FirstSink(s)].children
                          \o [i \in 1..Len(added[s]) |-> toXML(added[s][i].id)]
                   /\ \A n \in DOMAIN dom \ {FirstSink(s)} : dom'[n] = dom[n]
      ]_vars

\* a render failed for want of a sink, the sink appeared, and a second
\* render appended the two drawables the container holds, in add order
C11_Witness ==
    \E s \in DOMAIN svg :
        /\ last.op = "render" /\ last.target = s /\ last.result = "returned"
        /\ "render:TypeError" \in called[s]
        /\ AddOrder(s) = <<"p1", "t1">>
        /\ Len(dom[FirstSink(s)].children) = 2
        /\ dom[FirstSink(s)].children[1].tagName = "path"
        /\ dom[FirstSink(s)].children[2].tagName = "text"

----------------------------------------------------------------------------
(* Claims about the attributes of a Path *)

\* C12: setStroke(color) without a width sets the stroke color and leaves
\* the stroke width as it was before the call: the initial 1, or the width
\* an earlier call set.
C12_StrokeKeepsWidth ==
    [][\A p \in DOMAIN path :
        (last'.op = "setStroke" /\ last'.target = p
         /\ last'.args[2] = undefined) =>
            /\ path'[p].strokeColor = last'.args[1]
            /\ path'[p].strokeWidth = path[p].strokeWidth
            /\ path'[p].strokeWidth =
                   IF called[p] \cap {"setStroke", "setStrokeWidth"} = {}
                   THEN 1 ELSE path[p].strokeWidth
      ]_vars

\* setStroke without a width was called on a Path whose width an earlier
\* call had set to a value other than 1
C12_Witness ==
    \E p \in DOMAIN path :
        /\ last.op = "setStroke" /\ last.target = p /\ last.args[2] = undefined
        /\ "setStrokeWidth" \in called[p]
        /\ path[p].strokeWidth = 3
        /\ path[p].strokeColor = "blue"

\* the attributes of an element as a set of (name, value) pairs
AttributePairs(element) ==
    {element.attributes[i] : i \in 1..Len(element.attributes)}

\* the attribute names of an element
AttributeNames(element) ==
    {element.attributes[i][1] : i \in 1..Len(element.attributes)}

\* C13: materializing a path created with new Path() on which no method
\* has been called yields an element of kind "path" with d="", fill="black",
\* stroke="none" and stroke-width="1".
C13_DefaultPathElement ==
    \A p \in DOMAIN path :
        (/\ last.op = "toXML" /\ last.target = p
         /\ called[p] = {"toXML"}
         /\ ctor[p] = [pathString |-> undefined, relative |-> undefined])
        => /\ last.result.tagName = "path"
           /\ Len(last.result.attributes) = 4
           /\ AttributePairs(last.result) =
                  {<<"d", "">>, <<"fill", "black">>,
                   <<"stroke", "none">>, <<"stroke-width", "1">>}

\* toXML is the only method called on a Path constructed with new Path()
C13_Witness ==
    \E p \in DOMAIN path :
        /\ last.op = "toXML" /\ last.target = p
        /\ called[p] = {"toXML"}
        /\ ctor[p] = [pathString |-> undefined, relative |-> undefined]
        /\ last.result.tagName = "path"

\* C14: calling toXML() twice on a Path that is not modified between the
\* calls yields elements of the same kind with the same attribute names and
\* values; materialization leaves the Path's fields as they are.
C14_MaterializeRepeatable ==
    [][\A p \in DOMAIN path :
        (last'.op = "toXML" /\ last'.target = p) =>
            /\ path'[p] = path[p]
            /\ last'.again =>
                   /\ last'.result.tagName = last.result.tagName
                   /\ last'.result.attributes = last.result.attributes
                   /\ last'.result = BuildElement(Path_toXMLCalls(path[p]))
      ]_vars

\* a Path that was changed by a command and two setters has been
\* materialized twice in a row
C14_Witness ==
    \E p \in DOMAIN path :
        /\ last.op = "toXML" /\ last.target = p /\ last.again
        /\ path[p].pathString # "" /\ hist[p] # <<>>
        /\ path[p].fillColor = "red" /\ path[p].strokeWidth = -2

----------------------------------------------------------------------------
(* Claims about the attributes of a Text *)

\* "f1,f2,...,fn": the fonts joined by single commas, in list order
RECURSIVE CommaJoined(_)
CommaJoined(fonts) ==
    IF fonts = <<>> THEN ""
    ELSE IF Len(fonts) = 1 THEN fonts[1]
    ELSE CommaJoined(SubSeq(fonts, 1, Len(fonts) - 1)) \o "," \o fonts[Len(fonts)]

\* this step is the call x.toXML()
Materialized(x) == last'.op = "toXML" /\ last'.target = x

\* C15 as stated: materializing a Text on which the fonts setter was never
\* called yields an element without a font-family attribute; materializing
\* after fonts([f1, ..., fn]) yields font-family = "f1,...,fn".
C15_FamilyOnlyBySetter ==
    [][\A x \in DOMAIN text :
        Materialized(x) =>
            /\ "setFonts" \notin called[x] =>
                   ~HasAttribute(last'.result, "font-family")
            /\ (last.op = "setFonts" /\ last.target = x) =>
                   /\ HasAttribute(last'.result, "font-family")
                   /\ AttributeOf(last'.result, "font-family") =
                          CommaJoined(last.args[1])
      ]_vars

\* C15, amended: materializing a Text that was constructed without a fonts
\* argument and on which the fonts setter was never called yields an element
\* without a font-family attribute; materializing after fonts([f1, ..., fn])
\* yields font-family = "f1,...,fn".
C15_FamilyWhenListGiven ==
    [][\A x \in DOMAIN text :
        Materialized(x) =>
            /\ ("setFonts" \notin called[x] /\ textCtor[x].fonts = undefined) =>
                   ~HasAttribute(last'.result, "font-family")
            /\ (last.op = "setFonts" /\ last.target = x) =>
                   /\ HasAttribute(last'.result, "font-family")
                   /\ AttributeOf(last'.result, "font-family") =
                          CommaJoined(last.args[1])
      ]_vars

\* a Text constructed without fonts, on which setSize and setFonts with two
\* fonts were called, was materialized with the joined list
C15_Witness ==
    \E x \in DOMAIN text :
        /\ textCtor[x].fonts = undefined
        /\ last.op = "toXML" /\ last.target = x /\ ~last.again
        /\ {"setSize", "setFonts", "toXML"} \subseteq called[x]
        /\ text[x].fontProperties.family = << <<"Arial", "sans-serif">> >>
        /\ AttributeOf(last.result, "font-family") = "Arial,sans-serif"

\* the drawable e holds a family list
FamilyPresent(e) ==
    IF e \in DOMAIN text THEN text[e].fontProperties.family # null
    ELSE ytext[e].font.family # null

\* C16: every materialized path element carries exactly the attributes d,
\* fill, stroke, stroke-width and every materialized text element exactly x,
\* y, font-size, fill, font-weight, text-anchor, plus font-family when a
\* family list is present; no other attribute is set.
C16_ExactAttributes ==
    last.op = "toXML" =>
        /\ Len(last.result.attributes) = Cardinality(AttributeNames(last.result))
        /\ last.target \in DOMAIN path =>
               /\ last.result.tagName = "path"
               /\ AttributeNames(last.result) = {"d", "fill", "stroke", "stroke-width"}
        /\ last.target \notin DOMAIN path =>
               /\ last.result.tagName = "text"
               /\ AttributeNames(last.result) =
                      {"x", "y", "font-size", "fill", "font-weight", "text-anchor"}
                      \cup (IF FamilyPresent(last.target)
                            THEN {"font-family"} ELSE {})

\* C17: in every state the stored font size and font weight of a Text are
\* strings: setSize and setWeight store the string form of a number
\* argument and store a string argument unchanged.
C17_SizeWeightStrings ==
    [][\A x \in DOMAIN text :
        /\ typeof(text[x].fontProperties.size) = "string"
        /\ typeof(text[x].fontProperties.weight) = "string"
        /\ typeof(text'[x].fontProperties.size) = "string"
        /\ typeof(text'[x].fontProperties.weight) = "string"
        /\ (last'.op = "setSize" /\ last'.target = x) =>
               text'[x].fontProperties.size.value =
                   IF typeof(last'.args[1]) = "number"
                   THEN ToString(last'.args[1].value) ELSE last'.args[1].value
        /\ (last'.op = "setWeight" /\ last'.target = x) =>
               text'[x].fontProperties.weight.value =
                   IF typeof(last'.args[1]) = "number"
                   THEN ToString(last'.args[1].value) ELSE last'.args[1].value
      ]_vars

\* setSize was called with a number and setWeight with a number: the
\* strings "12" and "700" are stored
C17_Witness ==
    \E x \in DOMAIN text :
        /\ last.op = "setWeight" /\ last.target = x
        /\ typeof(last.args[1]) = "number"
        /\ "setSize" \in called[x]
        /\ text[x].fontProperties.size = JSString("12")
        /\ text[x].fontProperties.weight = JSString("700")

----------------------------------------------------------------------------
(* Claims about the order of the primitive calls and about add *)

\* the positions of the appendChild calls in `calls`
AppendAt(calls) == {i \in 1..Len(calls) : calls[i].fn = "appendChild"}

\* the primitive calls that precede the appendChild at position i, back to
\* the toXML call they belong to
Block(calls, i) ==
    LET start == CHOOSE j \in 1..i :
                     /\ calls[j].fn = "toXML"
                     /\ \A k \in (j + 1)..i : calls[k].fn # "toXML"
    IN  SubSeq(calls, start + 1, i - 1)

\* a block creates the element first and then only sets attributes and
\* the content, and every primitive call belongs to a block
WellFormed(calls) ==
    /\ \A i \in 1..Len(calls) :
           calls[i].fn \in {"setAttribute", "innerHTML", "createElementNS"} =>
               \E j \in AppendAt(calls) :
                   /\ i < j
                   /\ \A k \in i..j : calls[k].fn # "toXML"
    /\ \A i \in AppendAt(calls) :
           LET b == Block(calls, i)
           IN  /\ b # <<>> /\ b[1].fn = "createElementNS"
               /\ \A k \in 2..Len(b) : b[k].fn \in {"setAttribute", "innerHTML"}
               /\ b[1].args[2] = "text" => \E k \in 2..Len(b) : b[k].fn = "innerHTML"
               /\ \E k \in 2..Len(b) : b[k].fn = "setAttribute"

\* C18 as stated: for every drawable the primitives are called in the
\* order create, set all attributes, (for text) set the text content,
\* append; no attribute is set after the append and the text content is set
\* after the attributes.
C18_ContentAfterAttributes ==
    last.op = "render" =>
        /\ WellFormed(last.calls)
        /\ \A i \in AppendAt(last.calls) :
               LET b == Block(last.calls, i)
               IN  \A ka, kc \in 2..Len(b) :
                       (b[ka].fn = "setAttribute" /\ b[kc].fn = "innerHTML") => ka < kc

\* C18, amended: for every drawable the primitives are called in the order
\* create, (for text) set the text content, set all attributes, append; no
\* attribute and no content is set after the append.
C18_ContentBeforeAttributes ==
    last.op = "render" =>
        /\ WellFormed(last.calls)
        /\ \A i \in AppendAt(last.calls) :
               LET b == Block(last.calls, i)
               IN  \A ka, kc \in 2..Len(b) :
                       (b[ka].fn = "setAttribute" /\ b[kc].fn = "innerHTML") => kc < ka

\* a render appended a text element and a path element
C18_Witness ==
    /\ last.op = "render" /\ last.result = "returned"
    /\ Len(Appended(last.calls)) = 2
    /\ Appended(last.calls)[1].tagName = "text"
    /\ Appended(last.calls)[1].innerHTML = ""
    /\ Appended(last.calls)[2].tagName = "path"

\* this step is a call of add on container s
Added(s) == added'[s] # added[s]

\* C19: add(d) appends d at the end of the container's sequence: the
\* length grows by one and the earlier entries stay in place; nothing is
\* de-duplicated, so a drawable added twice occurs twice and render appends
\* one element per occurrence.
C19_AddAppends ==
    [][\A s \in DOMAIN svg :
        /\ Added(s) =>
               LET old == arrays[svg[s].elements]
                   new == arrays'[svg[s].elements]
               IN  /\ Len(new) = Len(old) + 1
                   /\ new[Len(new)] = last'.args[1]
                   /\ \A i \in 1..Len(old) : new[i] = old[i]
        /\ (Rendered(s) /\ SinkPresent(s)) =>
               /\ Len(dom'[FirstSink(s)].children) =
                      Len(dom[FirstSink(s)].children) + Len(added[s])
               /\ \A i \in 1..Len(added[s]) :
                      dom'[FirstSink(s)].children[Len(dom[FirstSink(s)].children) + i]
                          = toXML(added[s][i].id)
      ]_vars

\* the same Path was added twice and a render appended two path elements
C19_Witness ==
    \E s \in DOMAIN svg :
        /\ last.op = "render" /\ last.target = s /\ last.result = "returned"
        /\ AddOrder(s) = <<"p1", "p1">>
        /\ arrays[svg[s].elements] = <<"p1", "p1">>
        /\ Len(dom[FirstSink(s)].children) = 2
        /\ \A i \in 1..2 : dom[FirstSink(s)].children[i].tagName = "path"

\* C20: two distinct containers are independent, however they were
\* constructed: add on one leaves the sequence of the other unchanged, and
\* a render of one appends the drawables added to it and no others.
C20_ContainersIndependent ==
    [][\A s \in DOMAIN svg :
        /\ Added(s) =>
               \A o \in DOMAIN svg \ {s} :
                   arrays'[svg[o].elements] = arrays[svg[o].elements]
        /\ (Rendered(s) /\ SinkPresent(s)) =>
               Appended(last'.calls) =
                   [i \in 1..Len(added[s]) |-> toXML(added[s][i].id)]
      ]_vars

----------------------------------------------------------------------------
(* Claims about what a call returns and what it leaves alone *)

PathSetterOps == {"setFill", "setStroke", "setStrokeWidth"}
TextSetterOps ==
    {"setBody", "setPosition", "setFonts", "setColor", "setSize", "setWeight",
     "setAnchor"}
CommandOps == GeneralOps \cup LowerOps \cup UpperOps \cup CloseOps
ChainableOps == CommandOps \cup PathSetterOps \cup TextSetterOps \cup {"add"}

\* this step is a call (of any method)
Call == budget' # budget

\* C21: every Path command, Path attribute setter, Text setter and
\* Container.add returns the instance it was called on: no object is
\* created, and the call changes no object but the one it was called on.
C21_ReturnsReceiver ==
    [][(Call /\ last'.op \in ChainableOps) =>
          /\ last'.returned = last'.target
          /\ DOMAIN path' = DOMAIN path /\ DOMAIN text' = DOMAIN text
          /\ DOMAIN svg' = DOMAIN svg /\ DOMAIN arrays' = DOMAIN arrays
          /\ \A o \in DOMAIN path \ {last'.target} : path'[o] = path[o]
          /\ \A o \in DOMAIN text \ {last'.target} : text'[o] = text[o]
          /\ \A o \in DOMAIN svg \ {last'.target} :
                 svg'[o] = svg[o] /\ arrays'[svg[o].elements] = arrays[svg[o].elements]
      ]_vars

\* a chain of two calls on one Path: a command, then a setter called on
\* what the command returned
C21_Witness ==
    \E p \in DOMAIN path :
        /\ last.op = "setStroke" /\ last.target = p /\ last.returned = p
        /\ hist[p] # <<>> /\ hist[p][1].op = "moveTo"
        /\ path[p].strokeColor = "blue" /\ path[p].pathString # ""

\* C22 as stated: the stored stroke width is never negative.
C22_WidthNonNegative == \A p \in DOMAIN path : path[p].strokeWidth >= 0

\* C22: the stored stroke width is 1 after construction and from then on
\* the width argument of the latest setStroke or setStrokeWidth call that
\* passed one, stored as given, negative or not; no other call changes it.
C22_WidthAsGiven ==
    /\ \A p \in DOMAIN path : path[p].strokeWidth = 1
    /\ [][\A p \in DOMAIN path :
            path'[p].strokeWidth =
                IF last'.target = p /\ last'.op = "setStrokeWidth"
                THEN last'.args[1]
                ELSE IF /\ last'.target = p /\ last'.op = "setStroke"
                        /\ last'.args[2] # undefined
                THEN last'.args[2][1]
                ELSE path[p].strokeWidth
        ]_vars

\* setStrokeWidth was called with a negative width, and the Path stores it
C22_Witness ==
    \E p \in DOMAIN path :
        /\ last.op = "setStrokeWidth" /\ last.target = p
        /\ last.args[1] < 0
        /\ path[p].strokeWidth = last.args[1]

\* C23: a Path attribute setter changes only its own fields (setFill:
\* fillColor; setStrokeWidth: strokeWidth; setStroke: strokeColor and
\* strokeWidth) and so neither pathString nor the default mode; a command
\* method changes none of fillColor, strokeColor and strokeWidth.
C23_SetterFrame ==
    [][\A p \in DOMAIN path :
        last'.target = p =>
            /\ last'.op = "setFill" =>
                   path'[p] = [path[p] EXCEPT !.fillColor = path'[p].fillColor]
            /\ last'.op = "setStrokeWidth" =>
                   path'[p] = [path[p] EXCEPT !.strokeWidth = path'[p].strokeWidth]
            /\ last'.op = "setStroke" =>
                   path'[p] = [path[p] EXCEPT !.strokeColor = path'[p].strokeColor,
                                              !.strokeWidth = path'[p].strokeWidth]
            /\ last'.op \in PathSetterOps =>
                   /\ path'[p].pathString = path[p].pathString
                   /\ path'[p].relative = path[p].relative
            /\ last'.op \in CommandOps =>
                   /\ path'[p].fillColor = path[p].fillColor
                   /\ path'[p].strokeColor = path[p].strokeColor
                   /\ path'[p].strokeWidth = path[p].strokeWidth
      ]_vars

\* setFill was called on a Path whose stroke an earlier call had set: the
\* stroke is as that call left it
C23_Witness ==
    \E p \in DOMAIN path :
        /\ last.op = "setFill" /\ last.target = p
        /\ "setStroke" \in called[p]
        /\ path[p].fillColor = "red"
        /\ path[p].strokeColor = "blue" /\ path[p].strokeWidth = 3

----------------------------------------------------------------------------
(* Claims about materialization and rendering *)

\* the Paths and Texts of the heap
Builders == DOMAIN path \cup DOMAIN text

\* C24: in every state of a Path or Text, a Path without instructions
\* included, toXML yields an element (of a Path: one with the attribute d),
\* and a call of it leaves every field as it is; calls made after a toXML
\* take effect as before, and a toXML yields an element that shows the
\* fields as they are at that call.
C24_MaterializeAnytime ==
    [][\A x \in Builders :
        /\ toXML(x).tagName = (IF x \in DOMAIN path THEN "path" ELSE "text")
        /\ x \in DOMAIN path => HasAttribute(toXML(x), "d")
        /\ last'.target = x =>
            /\ last'.op = "toXML" =>
                   /\ path' = path /\ text' = text
                   /\ Shows(last'.result, x, FieldsOf(x))
                   /\ x \in DOMAIN path =>
                          /\ HasAttribute(last'.result, "d")
                          /\ AttributeOf(last'.result, "stroke") = path[x].strokeColor
                   /\ x \in DOMAIN text =>
                          Text_toXML(text[x]) = last'.result
            /\ "toXML" \in called[x] =>
                   /\ last'.op = "close" => path'[x] = close(path[x])
                   /\ last'.op = "setStroke" =>
                          path'[x] = setStroke(path[x], last'.args[1], last'.args[2])
                   /\ last'.op = "setFonts" =>
                          text'[x] = setFonts(text[x], last'.args)
      ]_vars

\* a Path without instructions was materialized, and the close and the
\* setStroke called after that took effect
C24_Witness ==
    \E p \in DOMAIN path :
        /\ last.op = "setStroke" /\ last.target = p
        /\ called[p] = {"toXML", "close", "setStroke"}
        /\ Len(hist[p]) = 1
        /\ path[p].pathString # "" /\ path[p].strokeColor = "blue"

\* C25: render is the only operation that attaches anything to a sink: a
\* Path command or setter, a Text setter, add and a direct toXML leave the
\* children of every node of the document as they are.
C25_OnlyRenderAttaches ==
    [][last'.op # "render" =>
          /\ DOMAIN dom' = DOMAIN dom
          /\ \A n \in DOMAIN dom : dom'[n].children = dom[n].children
      ]_vars

\* a Path was added to a container and then materialized directly: no
\* node of the document has a child
C25_Witness ==
    \E s \in DOMAIN svg, p \in DOMAIN path :
        /\ last.op = "toXML" /\ last.target = p
        /\ last.result.tagName = "path"
        /\ AddOrder(s) = <<p>>
        /\ \A n \in DOMAIN dom : dom[n].children = <<>>

\* C26: render() is read-only on the model: it leaves the selector and the
\* drawable sequence of the container, and every field of every Path and
\* Text, as they are.
C26_RenderReadOnly ==
    [][\A s \in DOMAIN svg :
        Rendered(s) =>
            /\ svg' = svg
            /\ arrays' = arrays
            /\ path' = path
            /\ text' = text
      ]_vars

\* a render appended the Path and the Text the container holds, both
\* changed by calls of their own: the container holds them as before
C26_Witness ==
    \E s \in DOMAIN svg :
        /\ last.op = "render" /\ last.target = s /\ last.result = "returned"
        /\ Len(Appended(last.calls)) = 2
        /\ arrays[svg[s].elements] = <<"p1", "t1">>
        /\ path["p1"].pathString # "" /\ path["p1"].fillColor = "red"
        /\ text["t1"].body = "hello"

\* the nodes of the document that the selector of container s matches
MatchingNodes(s) ==
    IF svg[s].selector = "" THEN {}
    ELSE {n \in DOMAIN dom : NodeMatches(n, svg[s].selector)}

\* C27: when the selector matches several nodes, render appends every
\* element to the first of them in document order and leaves the children
\* of the other matching nodes as they are.
C27_FirstMatchOnly ==
    [][\A s \in DOMAIN svg :
        (Rendered(s) /\ Cardinality(MatchingNodes(s)) > 1) =>
            /\ last'.result = "returned"
            /\ dom'[FirstSink(s)].children =
                   dom[FirstSink(s)].children
                   \o [i \in 1..Len(added[s]) |-> toXML(added[s][i].id)]
            /\ \A n \in MatchingNodes(s) \ {FirstSink(s)} :
                   dom'[n].children = dom[n].children
            /\ \A k \in 1..Len(last'.calls) :
                   last'.calls[k].fn = "appendChild" =>
                       last'.calls[k].args[1] = FirstSink(s)
      ]_vars

\* the selector matches three nodes and a render appended two elements:
\* the first node has them, the other two have none
C27_Witness ==
    \E s \in DOMAIN svg :
        /\ last.op = "render" /\ last.target = s /\ last.result = "returned"
        /\ MatchingNodes(s) = {1, 2, 3}
        /\ Len(dom[1].children) = 2
        /\ dom[2].children = <<>> /\ dom[3].children = <<>>

\* C28: render neither clears the sink nor remembers what it appended: a
\* render of a container that was rendered before keeps the children the
\* sink has and appends to them one element per drawable, in add order,
\* each built from the drawable's fields at this render; so k renders of n
\* drawables into an empty sink leave it with the n-element sequence
\* repeated k times.
C28_RenderAccumulates ==
    [][\A s \in DOMAIN svg :
        (Rendered(s) /\ MatchesSink(s) /\ "render:returned" \in called[s]) =>
            /\ last'.result = "returned"
            /\ Len(dom'[Sink(s)].children) =
                   Len(dom[Sink(s)].children) + Len(arrays[svg[s].elements])
            /\ SubSeq(dom'[Sink(s)].children, 1, Len(dom[Sink(s)].children)) =
                   dom[Sink(s)].children
            /\ \A i \in 1..Len(added[s]) :
                   /\ arrays[svg[s].elements][i] = added[s][i].id
                   /\ dom'[Sink(s)].children[Len(dom[Sink(s)].children) + i] =
                          BuildElement(
                              IF added[s][i].id \in DOMAIN path
                              THEN Path_toXMLCalls(path[added[s][i].id])
                              ELSE Text_toXMLCalls(text[added[s][i].id]))
      ]_vars

\* three renders of a container that holds one Path, whose fill was set
\* between the renders: the sink has three path elements, and the first
\* and the last differ
C28_Witness ==
    \E s \in DOMAIN svg :
        /\ last.op = "render" /\ last.target = s /\ MatchesSink(s)
        /\ AddOrder(s) = <<"p1">>
        /\ Len(dom[Sink(s)].children) = 3
        /\ \A i \in 1..3 : dom[Sink(s)].children[i].tagName = "path"
        /\ dom[Sink(s)].children[1] # dom[Sink(s)].children[3]
        /\ dom[Sink(s)].children[3] = Path_toXML(path["p1"])

\* C29: Text.toXML sets font-family exactly when the stored family is not
\* null. A Text constructed without fonts stores null, not the empty list
\* a new TextFontProperties has; one constructed with fonts stores them,
\* so the attribute is emitted without a call of the setter; after
\* setFonts([]) the attribute is emitted with the value "".
C29_FamilyIffStored ==
    \A x \in DOMAIN text :
        LET family == text[x].fontProperties.family
        IN  /\ "setFonts" \notin called[x] =>
                   IF textCtor[x].fonts = undefined
                   THEN family = null /\ family # NewTextFontProperties.family
                   ELSE family = textCtor[x].fonts /\ family # null
            /\ (last.op = "toXML" /\ last.target = x) =>
                   /\ family = null => ~HasAttribute(last.result, "font-family")
                   /\ family # null =>
                          /\ HasAttribute(last.result, "font-family")
                          /\ AttributeOf(last.result, "font-family") =
                                 CommaJoined(family[1])
                   /\ family = << <<>> >> =>
                          /\ HasAttribute(last.result, "font-family")
                          /\ AttributeOf(last.result, "font-family") = ""

\* a Text constructed with two fonts was materialized after setFonts([]):
\* the element has the attribute font-family, with the empty value
C29_Witness ==
    \E x \in DOMAIN text :
        /\ last.op = "toXML" /\ last.target = x
        /\ textCtor[x].fonts = << <<"Arial", "sans-serif">> >>
        /\ "setFonts" \in called[x]
        /\ text[x].fontProperties.family = << <<>> >>
        /\ HasAttribute(last.result, "font-family")
        /\ AttributeOf(last.result, "font-family") = ""

\* C30: the stored default mode of a Path is the mode its constructor was
\* given (ABSOLUTE when none was) in every state, whatever commands,
\* setters, toXML or render calls were made; so a call without the flag
\* that follows calls with an explicit flag still resolves to the
\* constructor's mode.
C30_DefaultModeFixed ==
    \A p \in DOMAIN path :
        /\ path[p].relative = ModeOf(p)
        /\ (/\ hist[p] # <<>>
            /\ hist[p][Len(hist[p])].op \in GeneralOps
            /\ hist[p][Len(hist[p])].flag = undefined) =>
               path[p].pathString =
                   SeedOf(p)
                   \o Fragments(SubSeq(hist[p], 1, Len(hist[p]) - 1), ModeOf(p))
                   \o FormatArgs(hist[p][Len(hist[p])].op,
                                 hist[p][Len(hist[p])].args, ModeOf(p))

\* a Path constructed as relative received a call with the flag ABSOLUTE
\* and then a call without the flag
C30_Witness ==
    \E p \in DOMAIN path :
        /\ ctor[p].relative = <<RELATIVE>>
        /\ Len(hist[p]) = 2
        /\ hist[p][1].op \in GeneralOps /\ hist[p][1].flag = <<ABSOLUTE>>
        /\ hist[p][2].op \in GeneralOps /\ hist[p][2].flag = undefined
        /\ path[p].relative = RELATIVE

====
